---------------------------- MODULE Spec2Model ----------------------------
(***************************************************************************)
(* Model of src/src/app/app.py: the Gradio handlers of the retail          *)
(* dashboard (customer_lookup, revenue_data, product_data, churn_data,     *)
(* exec_data), the query executor run_query they share, and the module     *)
(* level WorkspaceClient w through which every statement is submitted.     *)
(*                                                                         *)
(* Python strings are sequences of one-character strings, so that          *)
(* str.strip, int() and truthiness are computed and not assumed.           *)
(* A handler is split at its blocking call w.statement_execution.          *)
(* execute_statement: one action runs the handler up to the submission,    *)
(* execute_statement_done runs it from the response to the next            *)
(* submission or to its return.                                            *)
(***************************************************************************)
EXTENDS Integers, Sequences, FiniteSets, TLC

VARIABLES
    pc,     \* per request slot: "idle", "waiting" (inside execute_statement), "done"
    op,     \* the handler running in the slot and its arguments
    sent,   \* statements the invocation has submitted to the warehouse, in order
    resp,   \* what execute_statement answered to each of them
    dfs,    \* the DataFrames run_query returned to the handler
    out,    \* what the handler returned, or the exception that left it
    conn    \* the client object the slot's call in flight is using

vars == <<pc, op, sent, resp, dfs, out, conn>>

\* ---------------------------------------------------------------- bounds
\* Longest customer-id text typed into the textbox.
MaxLen == 2
\* Most rows a warehouse response carries.
MaxRows == 2

\* Request slots served in parallel (demo.queue allows up to 100).
Workers == {"t1", "t2"}

\* ------------------------------------------------------- Python values
None == <<"None">>
NoConn == "no client"
NoOp == [name |-> "none"]
NoOut == [status |-> "none"]

\* bool(x) of a str or None
Truthy(x) == x # None /\ x # <<>>

IsSpace(c) == c = " "
IsDigit(c) == c \in {"0", "1", "2", "3", "4", "5", "6", "7", "8", "9"}

RECURSIVE lstrip(_)
lstrip(s) == IF s # <<>> /\ IsSpace(Head(s)) THEN lstrip(Tail(s)) ELSE s

RECURSIVE rstrip(_)
rstrip(s) ==
    IF s # <<>> /\ IsSpace(s[Len(s)]) THEN rstrip(SubSeq(s, 1, Len(s) - 1)) ELSE s

\* str.strip()
strip(s) == lstrip(rstrip(s))

DigitVal(c) ==
    CASE c = "0" -> 0 [] c = "1" -> 1 [] c = "2" -> 2 [] c = "3" -> 3
      [] c = "4" -> 4 [] c = "5" -> 5 [] c = "6" -> 6 [] c = "7" -> 7
      [] c = "8" -> 8 [] c = "9" -> 9

RECURSIVE DigitsValue(_, _)
DigitsValue(s, acc) ==
    IF s = <<>> THEN acc ELSE DigitsValue(Tail(s), 10 * acc + DigitVal(Head(s)))

AllDigits(s) == s # <<>> /\ \A i \in 1..Len(s) : IsDigit(s[i])

\* int(text): surrounding whitespace is dropped, one sign is allowed, the
\* rest must be decimal digits; anything else is a ValueError.  (Python
\* also takes "_" between digits; the texts modelled hold no "_".)
int_str(s) ==
    LET b == strip(s)
        signed == b # <<>> /\ Head(b) \in {"-", "+"}
        d == IF signed THEN Tail(b) ELSE b
    IN  IF AllDigits(d)
        THEN [ok |-> TRUE,
              val |-> IF signed /\ Head(b) = "-" THEN 0 - DigitsValue(d, 0)
                      ELSE DigitsValue(d, 0)]
        ELSE [ok |-> FALSE, val |-> 0]


\* --------------------------------------------------- statements (SQL text)
\* A statement is the f-string of its handler with the interpolated values
\* kept as fields: what the warehouse receives is exactly these values.
CustomerSql(cid) == [q |-> "customer", key |-> cid]
RevenueSql(clauses) == [q |-> "revenue", where |-> clauses]
ProductSql(sort_by, n) == [q |-> "product", order_by |-> sort_by, limit |-> n]
ChurnSummarySql == [q |-> "churn_summary"]
ChurnDetailSql == [q |-> "churn_detail"]
ExecSql == [q |-> "exec"]

\* Columns of each SELECT list, in order.
CustomerCols ==
    <<"customer_key", "customer_name", "market_segment", "nation_name",
      "region_name", "balance_tier", "rfm_segment", "rfm_score",
      "lifetime_value", "total_orders", "recency_days", "avg_order_value">>
RevenueCols == <<"year_month", "region", "revenue", "orders", "margin_pct">>
ProductCols ==
    <<"brand", "price_band", "revenue", "margin_pct", "return_rate", "orders">>
ChurnSummaryCols == <<"risk_tier", "customers", "avg_probability", "avg_ltv">>
ChurnDetailCols ==
    <<"customer_key", "risk_tier", "churn_prob", "ltv", "market_segment">>
ExecCols ==
    <<"year_quarter", "total_orders", "active_customers", "gross_revenue",
      "avg_order_value", "rev_per_customer", "qoq_growth">>

ColsOf(sql) ==
    CASE sql.q = "customer" -> CustomerCols
      [] sql.q = "revenue" -> RevenueCols
      [] sql.q = "product" -> ProductCols
      [] sql.q = "churn_summary" -> ChurnSummaryCols
      [] sql.q = "churn_detail" -> ChurnDetailCols
      [] sql.q = "exec" -> ExecCols

\* Columns whose values are text; every other column is a number.
TextCols ==
    {"customer_name", "market_segment", "nation_name", "region_name",
     "balance_tier", "rfm_segment", "year_month", "region", "brand",
     "price_band", "risk_tier", "year_quarter"}

\* Columns of gold_customer_rfm, NULL when the LEFT JOIN finds no RFM row.
RfmCols ==
    {"rfm_segment", "rfm_score", "lifetime_value", "total_orders",
     "recency_days", "avg_order_value"}

Range(s) == {s[i] : i \in 1..Len(s)}

\* Cells on the wire are strings or null: "n" a numeric string, "t" any
\* other string, "null" a JSON null.
FullRow(cols) ==
    [c \in Range(cols) |-> IF c \in TextCols THEN "t" ELSE "n"]
NoRfmRow(cols) ==
    [c \in Range(cols) |->
        IF c \in RfmCols THEN "null" ELSE IF c \in TextCols THEN "t" ELSE "n"]

RowsOf(sql) ==
    IF sql.q = "customer"
    THEN {FullRow(CustomerCols), NoRfmRow(CustomerCols)}
    ELSE {FullRow(ColsOf(sql))}

SeqsUpTo(S, n) == UNION {[1..k -> S] : k \in 0..n}

\* ------------------------------------------ the statement execution call
\* What w.statement_execution.execute_statement(..., wait_timeout="30s")
\* can do.  The call raises when the request itself fails (the warehouse
\* cannot be reached, the credential is rejected).  Otherwise it returns a
\* response: with result and manifest when the statement SUCCEEDED within
\* the wait timeout; with neither when the wait timeout elapsed first (the
\* statement is still PENDING) or when the warehouse FAILED the statement
\* (malformed SQL, an execution error).
ExcMessages == {"connection refused", "authentication rejected"}

Outcomes(sql) ==
    [kind : {"exception"}, msg : ExcMessages]
      \cup [kind : {"response"}, result : {TRUE}, manifest : {TRUE},
            data_array : SeqsUpTo(RowsOf(sql), MaxRows), state : {"SUCCEEDED"}]
      \cup [kind : {"response"}, result : {FALSE}, manifest : {FALSE},
            data_array : {<<>>}, state : {"PENDING", "FAILED"}]

\* ------------------------------------------------------------ DataFrames
DataFrame(rows, cols) == [columns |-> cols, rows |-> rows]
EmptyFrame == DataFrame(<<>>, <<>>)
ErrorFrame(msg) == DataFrame(<<[error |-> msg]>>, <<"error">>)

\* df.empty
empty(df) == Len(df.columns) = 0 \/ Len(df.rows) = 0
\* "c" in df.columns
HasCol(df, c) == c \in Range(df.columns)

\* pd.to_numeric(df[c], errors="ignore") for every column: a column whose
\* cells are all numeric strings or null becomes numbers (null becomes
\* NaN); a column holding any other string is left as it was.
to_numeric(df) ==
    LET numeric(c) == \A i \in 1..Len(df.rows) : df.rows[i][c] \in {"n", "null"}
        conv(c, v) == IF ~numeric(c) THEN v
                      ELSE IF v = "null" THEN "nan" ELSE "num"
    IN  DataFrame([i \in 1..Len(df.rows) |->
                      [c \in Range(df.columns) |-> conv(c, df.rows[i][c])]],
                  df.columns)

\* float(cell) and int(cell) succeed?
FloatOk(v) == v \in {"num", "nan", "n"}
IntOk(v) == v \in {"num", "n"}

\* run_query from the point where execute_statement has answered with o
\* (o an exception: the except branch).
run_query(sql, o) ==
    IF o.kind = "exception" THEN ErrorFrame(o.msg)
    ELSE IF o.result /\ o.manifest
         THEN to_numeric(DataFrame(o.data_array, ColsOf(sql)))
         ELSE EmptyFrame


\* --------------------------------------------------------- handler steps
\* w = WorkspaceClient(): the one client object of the process.
w == "w"

\* A handler's value is the tuple of what it returns: the text of a
\* Markdown output (its fixed part), a DataFrame, or None for a table.
Markdown(text) == [md |-> text]
NoTable == [table |-> "None"]
Return(v) == [status |-> "returned", value |-> v]
Raise(e) == [status |-> "raised", exc |-> e]

Last(s) == s[Len(s)]

\* The handler leaves (by return or by exception) without a further call.
Finish(t, o, result) ==
    /\ pc' = [pc EXCEPT ![t] = "done"]
    /\ op' = [op EXCEPT ![t] = o]
    /\ out' = [out EXCEPT ![t] = result]
    /\ conn' = [conn EXCEPT ![t] = NoConn]

\* run_query's call: one execute_statement on the module's client w.
execute_statement(t, o, sql) ==
    /\ pc' = [pc EXCEPT ![t] = "waiting"]
    /\ op' = [op EXCEPT ![t] = o]
    /\ sent' = [sent EXCEPT ![t] = Append(@, sql)]
    /\ conn' = [conn EXCEPT ![t] = w]
    /\ out' = out

\* customer_lookup without its try/except around int(): the text goes out.
customer_lookup_unvalidated(t, customer_id) ==
    /\ pc[t] = "idle"
    /\ LET o == [name |-> "customer_lookup", customer_id |-> customer_id]
       IN  IF ~Truthy(customer_id) \/ ~Truthy(strip(customer_id))
           THEN /\ Finish(t, o, Return(<<Markdown("Enter a customer ID to look up."), NoTable>>))
                /\ UNCHANGED <<sent, resp, dfs>>
           ELSE /\ execute_statement(t, o, CustomerSql(int_str(customer_id).val))
                /\ UNCHANGED <<resp, dfs>>

customer_lookup(t, customer_id) ==
    /\ pc[t] = "idle"
    /\ LET o == [name |-> "customer_lookup", customer_id |-> customer_id]
       IN  IF ~Truthy(customer_id) \/ ~Truthy(strip(customer_id))
           THEN /\ Finish(t, o, Return(<<Markdown("Enter a customer ID to look up."), NoTable>>))
                /\ UNCHANGED <<sent, resp, dfs>>
           ELSE IF ~int_str(customer_id).ok
           THEN /\ Finish(t, o, Return(<<Markdown("Enter a valid integer customer ID."), NoTable>>))
                /\ UNCHANGED <<sent, resp, dfs>>
           ELSE /\ execute_statement(t, o, CustomerSql(int_str(customer_id).val))
                /\ UNCHANGED <<resp, dfs>>

Clause(col, cmp, val) == [col |-> col, cmp |-> cmp, val |-> val]
ALL == <<"A", "L", "L">>

\* The clauses list of revenue_data.
clauses(region, start_month, end_month) ==
    (IF Truthy(region) /\ region # ALL
     THEN <<Clause("region", "=", region)>> ELSE <<>>)
      \o (IF Truthy(start_month)
          THEN <<Clause("year_month", ">=", start_month)>> ELSE <<>>)
      \o (IF Truthy(end_month)
          THEN <<Clause("year_month", "<=", end_month)>> ELSE <<>>)

revenue_data(t, region, start_month, end_month) ==
    /\ pc[t] = "idle"
    /\ execute_statement(t,
          [name |-> "revenue_data", region |-> region,
           start_month |-> start_month, end_month |-> end_month],
          RevenueSql(clauses(region, start_month, end_month)))
    /\ UNCHANGED <<resp, dfs>>

product_data(t, sort_by, top_n) ==
    /\ pc[t] = "idle"
    /\ execute_statement(t,
          [name |-> "product_data", sort_by |-> sort_by, top_n |-> top_n],
          ProductSql(sort_by, top_n))
    /\ UNCHANGED <<resp, dfs>>

churn_data(t) ==
    /\ pc[t] = "idle"
    /\ execute_statement(t, [name |-> "churn_data"], ChurnSummarySql)
    /\ UNCHANGED <<resp, dfs>>

exec_data(t) ==
    /\ pc[t] = "idle"
    /\ execute_statement(t, [name |-> "exec_data"], ExecSql)
    /\ UNCHANGED <<resp, dfs>>

\* r[c] for every c the f-string reads: a missing column is a KeyError.
HasAll(r, cs) == cs \subseteq DOMAIN r

\* customer_lookup from the return of run_query.
customer_lookup_format(df) ==
    IF HasCol(df, "error")
    THEN Return(<<Markdown("Query error: "), NoTable>>)
    ELSE IF empty(df)
    THEN Return(<<Markdown("No customer found with ID "), NoTable>>)
    ELSE LET r == df.rows[1]
         IN  IF ~HasAll(r, Range(CustomerCols) \ {"balance_tier"})
             THEN Raise("KeyError")
             ELSE IF ~(FloatOk(r.lifetime_value) /\ FloatOk(r.avg_order_value))
             THEN Raise("float() failed")
             ELSE Return(<<Markdown("## Customer #"), df>>)

\* revenue_data from the return of run_query.
revenue_data_format(df) ==
    IF HasCol(df, "error")
    THEN Return(<<Markdown("Query error: "), df>>)
    ELSE IF ~HasCol(df, "revenue")
    THEN Raise("KeyError: 'revenue'")
    ELSE IF \E i \in 1..Len(df.rows) : df.rows[i].revenue \notin {"num", "nan"}
    THEN Raise("format failed")
    ELSE Return(<<Markdown("**Total Revenue**"), df>>)

\* exec_data from the return of run_query.
exec_data_format(df) ==
    IF HasCol(df, "error")
    THEN Return(<<Markdown("Error loading data."), df>>)
    ELSE IF ~empty(df)
    THEN LET q == Last(df.rows)
         IN  IF ~HasAll(q, Range(ExecCols))
             THEN Raise("KeyError")
             ELSE IF ~(IntOk(q.total_orders) /\ IntOk(q.active_customers))
             THEN Raise("int() failed")
             ELSE IF ~(FloatOk(q.gross_revenue) /\ FloatOk(q.avg_order_value)
                          /\ FloatOk(q.rev_per_customer))
             THEN Raise("float() failed")
             ELSE Return(<<Markdown("### Latest Quarter: "), df>>)
    ELSE Return(<<Markdown("No data available."), df>>)

\* The handler goes on with the DataFrame run_query returned.
resume(t, df) ==
    /\ dfs' = [dfs EXCEPT ![t] = Append(@, df)]
    /\ IF op[t].name = "churn_data" /\ Len(dfs[t]) = 0
       THEN execute_statement(t, op[t], ChurnDetailSql)
       ELSE /\ sent' = sent
            /\ Finish(t, op[t],
                 CASE op[t].name = "customer_lookup" -> customer_lookup_format(df)
                   [] op[t].name = "revenue_data" -> revenue_data_format(df)
                   [] op[t].name = "product_data" -> Return(<<df>>)
                   [] op[t].name = "churn_data" -> Return(<<dfs[t][1], df>>)
                   [] op[t].name = "exec_data" -> exec_data_format(df))

\* run_query with a retry: a statement whose call raised is submitted again.
execute_statement_retry(t, o) ==
    /\ pc[t] = "waiting"
    /\ resp' = [resp EXCEPT ![t] = Append(@, o)]
    /\ IF o.kind = "exception" /\ Len(resp[t]) < 2
       THEN /\ sent' = [sent EXCEPT ![t] = Append(@, Last(sent[t]))]
            /\ UNCHANGED <<pc, op, dfs, out, conn>>
       ELSE resume(t, run_query(Last(sent[t]), o))

\* execute_statement answers (or raises) and run_query, then the handler,
\* run to the next call or to the handler's end.
execute_statement_done(t, o) ==
    /\ pc[t] = "waiting"
    /\ resp' = [resp EXCEPT ![t] = Append(@, o)]
    /\ resume(t, run_query(Last(sent[t]), o))

\* The framework takes the handler's value (or its exception) and the slot
\* is free for the next event.  Nothing of the invocation is kept.
release(t) ==
    /\ pc[t] = "done"
    /\ pc' = [pc EXCEPT ![t] = "idle"]
    /\ op' = [op EXCEPT ![t] = NoOp]
    /\ sent' = [sent EXCEPT ![t] = <<>>]
    /\ resp' = [resp EXCEPT ![t] = <<>>]
    /\ dfs' = [dfs EXCEPT ![t] = <<>>]
    /\ out' = [out EXCEPT ![t] = NoOut]
    /\ conn' = conn

\* ------------------------------------------------------- inputs of the UI
Alphabet == {"4", "a", " ", "-"}
CustomerIds == {None} \cup SeqsUpTo(Alphabet, MaxLen)

ASIA == <<"A", "S", "I", "A">>
Jan1995 == <<"1", "9", "9", "5", "-", "0", "1">>
Dec1997 == <<"1", "9", "9", "7", "-", "1", "2">>
RegionChoices ==
    {ALL, ASIA,
     <<"A", "M", "E", "R", "I", "C", "A">>,
     <<"E", "U", "R", "O", "P", "E">>,
     <<"A", "F", "R", "I", "C", "A">>,
     <<"M", "I", "D", "D", "L", "E", " ", "E", "A", "S", "T">>}
Regions == {None, ALL, ASIA, <<"x", "'">>}
StartMonths == {None, <<" ">>, Jan1995, <<"a", "b", "c">>}
EndMonths == {<<>>, <<" ", " ">>, Dec1997}

SortChoices ==
    {<<"r", "e", "v", "e", "n", "u", "e">>,
     <<"m", "a", "r", "g", "i", "n", "_", "p", "c", "t">>,
     <<"r", "e", "t", "u", "r", "n", "_", "r", "a", "t", "e">>,
     <<"o", "r", "d", "e", "r", "s">>}
SortBys ==
    {<<"r", "e", "v", "e", "n", "u", "e">>, <<"o", "r", "d", "e", "r", "s">>,
     <<"1", ";", "-", "-">>}
TopNs == {-5, 0, 1, 20, 1000, 1001}

Init ==
    /\ pc = [t \in Workers |-> "idle"]
    /\ op = [t \in Workers |-> NoOp]
    /\ sent = [t \in Workers |-> <<>>]
    /\ resp = [t \in Workers |-> <<>>]
    /\ dfs = [t \in Workers |-> <<>>]
    /\ out = [t \in Workers |-> NoOut]
    /\ conn = [t \in Workers |-> NoConn]

Next ==
    \E t \in Workers :
        \/ \E customer_id \in CustomerIds : customer_lookup(t, customer_id)
        \/ \E region \in Regions, start_month \in StartMonths, end_month \in EndMonths :
              revenue_data(t, region, start_month, end_month)
        \/ \E sort_by \in SortBys, top_n \in TopNs : product_data(t, sort_by, top_n)
        \/ churn_data(t)
        \/ exec_data(t)
        \/ /\ pc[t] = "waiting"
           /\ \E o \in Outcomes(Last(sent[t])) : execute_statement_done(t, o)
        \/ release(t)

Spec == Init /\ [][Next]_vars


\* ------------------------------------------------------------ properties
Done(t) == pc[t] = "done"
Calls(t) == 1..Len(sent[t])
Answers(t) == 1..Len(resp[t])

\* C1: every exposed operation returns a displayable value and never
\* raises, whatever run_query returned (rows, zero rows with columns, the
\* column-less empty table, the one-column error table).
C1_OperationsNeverRaise ==
    \A t \in Workers : Done(t) => out[t].status = "returned"

\* The warehouse call failed: it raised, or the statement FAILED.
Failed(o) == o.kind = "exception" \/ o.state = "FAILED"

\* C2: run_query never raises past its boundary and turns every way the
\* warehouse call can fail (connection refused, authentication rejected,
\* malformed SQL, execution error) into the failure value: a table with
\* an "error" column.
C2_FailureIsErrorTable ==
    \A t \in Workers :
        /\ Len(dfs[t]) = Len(resp[t])
        /\ \A i \in Answers(t) : Failed(resp[t][i]) => HasCol(dfs[t][i], "error")

\* C3: when the warehouse delivers no result within the wait timeout,
\* run_query's outcome is a failure (the error table), never a success
\* value.
C3_TimeoutIsFailure ==
    \A t \in Workers : \A i \in 1..Len(dfs[t]) :
        (resp[t][i].kind = "response" /\ resp[t][i].state = "PENDING")
            => HasCol(dfs[t][i], "error")

\* Text that Python's int() accepts: spaces, one optional sign, digits,
\* spaces.
IsIntText(s) ==
    /\ s # None
    /\ \E a \in 0..Len(s), b \in 0..Len(s) :
          /\ a + b < Len(s)
          /\ \A i \in 1..a : s[i] = " "
          /\ \A i \in (Len(s) - b + 1)..Len(s) : s[i] = " "
          /\ LET core == SubSeq(s, a + 1, Len(s) - b)
                 digits == IF core[1] \in {"-", "+"} THEN Tail(core) ELSE core
             IN  /\ digits # <<>>
                 /\ \A i \in 1..Len(digits) : IsDigit(digits[i])

\* C4: customer_lookup fails fast on invalid input: a customer_id that is
\* absent, blank or not an integer gets a validation message with no table
\* and no statement is submitted; a statement is submitted only for an
\* input that parsed as an integer.
C4_LookupFailsFast ==
    \A t \in Workers :
        op[t].name = "customer_lookup" =>
            IF IsIntText(op[t].customer_id)
            THEN /\ Len(sent[t]) = 1
                 /\ sent[t][1].q = "customer"
                 /\ sent[t][1].key \in Int
            ELSE /\ sent[t] = <<>>
                 /\ Done(t)
                 /\ out[t].status = "returned"
                 /\ out[t].value[2] = NoTable
                 /\ out[t].value[1].md \in {"Enter a customer ID to look up.",
                                            "Enter a valid integer customer ID."}

C4_Witness ==
    \E t \in Workers :
        /\ op[t].name = "customer_lookup"
        /\ op[t].customer_id = <<"4", "a">>
        /\ Done(t)
        /\ sent[t] = <<>>
        /\ out[t].value[1].md = "Enter a valid integer customer ID."

\* C5: a sort value outside the allow-list (revenue, margin_pct,
\* return_rate, orders) never reaches the executor: every product
\* statement submitted orders by an allow-listed column.
C5_SortAllowListed ==
    \A t \in Workers : \A i \in Calls(t) :
        sent[t][i].q = "product" => sent[t][i].order_by \in SortChoices

\* YYYY-MM
IsYearMonth(s) ==
    /\ s # None
    /\ Len(s) = 7
    /\ \A i \in {1, 2, 3, 4, 6, 7} : IsDigit(s[i])
    /\ s[5] = "-"

\* C6: revenue_data validates every filter value before a query is built:
\* no statement carries a region outside the enumerated set or a month
\* that is not YYYY-MM.
C6_FiltersValidated ==
    \A t \in Workers : \A i \in Calls(t) :
        sent[t][i].q = "revenue" =>
            \A k \in 1..Len(sent[t][i].where) :
                LET c == sent[t][i].where[k]
                IN  /\ c.col = "region" => c.val \in RegionChoices
                    /\ c.col = "year_month" => IsYearMonth(c.val)

\* A filter value that is absent, empty or whitespace only.
Blank(x) == x = None \/ strip(x) = <<>>

\* C7: blank or absent filters (region empty, None or ALL; months empty,
\* None or whitespace only) contribute no clause, and every other filter
\* contributes exactly one: the statement has as many clauses as there are
\* present, non-blank filters, none when all are blank.
C7_BlankFiltersNoClause ==
    \A t \in Workers :
        (op[t].name = "revenue_data" /\ Len(sent[t]) = 1) =>
            LET present ==
                    (IF Blank(op[t].region) \/ op[t].region = ALL THEN 0 ELSE 1)
                      + (IF Blank(op[t].start_month) THEN 0 ELSE 1)
                      + (IF Blank(op[t].end_month) THEN 0 ELSE 1)
            IN  Len(sent[t][1].where) = present

\* C8: the LIMIT of every product statement lies inside [1,1000], whatever
\* integer top_n was given.
C8_LimitClamped ==
    \A t \in Workers : \A i \in Calls(t) :
        sent[t][i].q = "product" => sent[t][i].limit \in 1..1000

\* C9: no client object is used by two concurrent calls at once.
C9_ClientPerCall ==
    \A a \in Workers, b \in Workers :
        (a # b /\ conn[a] # NoConn /\ conn[b] # NoConn) => conn[a] # conn[b]

\* C10: no retry: a statement is submitted at most once per invocation,
\* one call is in flight at most, and a finished handler has submitted
\* at most one statement (customer_lookup), exactly one (revenue_data,
\* product_data, exec_data) or exactly the two of churn_data, summary then
\* detail, the detail also after a failed summary.
C10_NoRetry ==
    \A t \in Workers :
        /\ \A i \in Calls(t), j \in Calls(t) : sent[t][i] = sent[t][j] => i = j
        /\ Len(resp[t]) <= Len(sent[t])
        /\ Len(sent[t]) <= Len(resp[t]) + 1
        /\ Done(t) =>
              /\ Len(resp[t]) = Len(sent[t])
              /\ op[t].name = "customer_lookup" => Len(sent[t]) <= 1
              /\ op[t].name \in {"revenue_data", "product_data", "exec_data"}
                    => Len(sent[t]) = 1
              /\ op[t].name = "churn_data"
                    => sent[t] = <<ChurnSummarySql, ChurnDetailSql>>

C10_Witness ==
    \E t \in Workers :
        /\ Done(t)
        /\ op[t].name = "churn_data"
        /\ resp[t][1].kind = "exception"
        /\ sent[t] = <<ChurnSummarySql, ChurnDetailSql>>

============================================================================
